---- MODULE Spec2Model ----
(***************************************************************************)
(* Bias detection pipeline of WEB-for-ALL: the model lifecycle manager     *)
(* (src/src/background/mlModelManager.js), the privacy handler             *)
(* (privacyHandler.js), the bias detection coordinator and its category    *)
(* pattern scanner (biasDetectionSystem.js), the statistical analysis of a *)
(* prediction batch (src/unnamed/part_011), the intersectional analysis    *)
(* (intersectionalAnalysis.js) and the bias mitigation (biasMitigation.js);*)
(* the user profile manager (src/unnamed/part_010) and the memory aid      *)
(* (src/unnamed/part_007) of the extension.                                *)
(***************************************************************************)
EXTENDS Integers, Sequences, FiniteSets, TLC

VARIABLES
    models,         \* MLModelManager.models: Map modelId -> model entry
    modelMetadata,  \* MLModelManager.modelMetadata: Map modelId -> metadata
    pendingInit,    \* initializeModel calls suspended at `await fetch`
    now,            \* the clock read by new Date().toISOString(), in ms
    ret,            \* the value returned by the last completed manager call
    nCalls,         \* number of trackPerformance calls issued so far (metrics ids)
    okTracks,       \* metrics of the trackPerformance calls that returned success
    okUpdates,      \* per model id: updateModel calls that returned success
    consentStatus,  \* PrivacyHandler.privacySettings.consentStatus
    req,            \* the analyzeContent requests, each with its position
    scan,           \* one findPatternMatches loop, step by step
    analysis,       \* one call of the statistical detectBias(predictions, metadata)
    intersect,      \* analyzeIntersections calls on per-category results
    mitigation,     \* one call of mitigateBias(model, biasMetrics, metadata)
    profileState,   \* profile manager: profiles (Map id -> profile), activeProfileId
    storage,        \* chrome.storage.local: the keys profiles and activeProfileId
    profileCall,    \* the last completed profile manager call and the state before it
    memoryConfig,   \* memory aid: memoryConfig
    memoryState     \* memory aid: memoryState.bookmarks, the clock, the calls made

vars == <<models, modelMetadata, pendingInit, now, ret, nCalls, okTracks,
          okUpdates, consentStatus, req, scan, analysis, intersect, mitigation,
          profileState, storage, profileCall, memoryConfig, memoryState>>

metricsVars == <<analysis, intersect, mitigation>>

extensionVars == <<profileState, storage, profileCall, memoryConfig, memoryState>>

managerVars == <<models, modelMetadata, pendingInit, now, ret, nCalls,
                 okTracks, okUpdates>>

-----------------------------------------------------------------------------
(* Bounds *)

MaxTime == 1          \* the clock ticks at most this many milliseconds
MaxCalls == 2         \* trackPerformance calls issued in one behaviour
MaxPending == 1       \* initializeModel calls suspended at once per model id
MaxPatch == 1         \* updateModel calls per version line (registry model)
MaxPatchLong == 11    \* updateModel calls per version line (version model)

-----------------------------------------------------------------------------
(* Values *)

CoordinatorModelId == "bias-detection-v2"
UnregisteredModelId == "unregistered-model"
ModelIds == {CoordinatorModelId, UnregisteredModelId}

NullConfig == "null"
Configs == {"modelConfig"}
ConfigArgs == Configs \cup {NullConfig}

\* The data field of a models entry: absent after updateModel (the new
\* configuration is stored as it is), the server's JSON, or the fallback stub.
NoData == [source |-> "none", id |-> "", fallbackMode |-> FALSE]
RemoteData(modelId) == [source |-> "remote", id |-> modelId, fallbackMode |-> FALSE]

-----------------------------------------------------------------------------
(* Strings of decimal digits and dots, as the version strings are *)

DigitChars == <<"0", "1", "2", "3", "4", "5", "6", "7", "8", "9">>

CharVal(c) == CHOOSE d \in 0..9 : DigitChars[d + 1] = c

RECURSIVE Number(_)
Number(s) ==
    IF s = <<>> THEN 0
    ELSE 10 * Number(SubSeq(s, 1, Len(s) - 1)) + CharVal(s[Len(s)])

RECURSIVE NumToString(_)
NumToString(n) ==
    IF n < 10 THEN <<DigitChars[n + 1]>>
    ELSE NumToString(n \div 10) \o <<DigitChars[(n % 10) + 1]>>

RECURSIVE Split(_, _)
Split(s, sep) ==
    IF \A i \in 1..Len(s) : s[i] # sep THEN <<s>>
    ELSE LET i == CHOOSE k \in 1..Len(s) :
                      s[k] = sep /\ \A j \in 1..(k - 1) : s[j] # sep
         IN  <<SubSeq(s, 1, i - 1)>> \o Split(SubSeq(s, i + 1, Len(s)), sep)

currentModelVersion == <<"1", ".", "0", ".", "0">>

incrementVersionConcat(version) ==
    LET parts == Split(version, ".")
    IN  parts[1] \o <<".">> \o parts[2] \o <<".">> \o parts[3] \o <<"1">>

incrementVersion(version) ==
    LET parts == Split(version, ".")
        major == Number(parts[1])
        minor == Number(parts[2])
        patch == Number(parts[3])
    IN  NumToString(major) \o <<".">> \o NumToString(minor) \o <<".">>
            \o NumToString(patch + 1)

-----------------------------------------------------------------------------
(* Model lifecycle manager *)

getFallbackModelDataUntagged(modelId, modelConfig) ==
    [source |-> "fallback", id |-> modelId, fallbackMode |-> FALSE]

getFallbackModelData(modelId, modelConfig) ==
    [source |-> "fallback", id |-> modelId, fallbackMode |-> TRUE]

\* Return values {success:false, error} and {success:true, ...}; fetch records
\* how the remote fetch of an initializeModel call ended.
Failure(op, modelId, msg) ==
    [op |-> op, modelId |-> modelId, success |-> FALSE, version |-> <<>>,
     error |-> msg, fetch |-> ""]

Success(op, modelId, version) ==
    [op |-> op, modelId |-> modelId, success |-> TRUE, version |-> version,
     error |-> "", fetch |-> ""]

NewMetadata(modelConfig) ==
    [version |-> currentModelVersion, lastUpdated |-> now,
     parameters |-> modelConfig, performance |-> <<>>]

\* initializeModel up to its `await fetch(...)`: the metadata object is built
\* from the clock and the configuration before the call suspends.
InitializeModelStart(modelId, modelConfig) ==
    /\ IF modelConfig = NullConfig
          THEN /\ ret' = Failure("initializeModel", modelId, "TypeError")
               /\ UNCHANGED pendingInit
          ELSE /\ Len(pendingInit[modelId]) < MaxPending
               /\ pendingInit' = [pendingInit EXCEPT ![modelId] =
                      Append(@, [config |-> modelConfig,
                                 metadata |-> NewMetadata(modelConfig)])]
               /\ UNCHANGED ret
    /\ UNCHANGED <<models, modelMetadata, now, nCalls, okTracks, okUpdates>>

FetchOutcomes == {"ok", "network-error", "timeout", "not-ok"}

ModelDataAfterFetch(outcome, modelId, modelConfig) ==
    IF outcome = "ok" THEN RemoteData(modelId)
    ELSE getFallbackModelData(modelId, modelConfig)

\* initializeModel from the resolution of the fetch to its return.
InitializeModelFinish(modelId, k, outcome) ==
    /\ k \in 1..Len(pendingInit[modelId])
    /\ LET p == pendingInit[modelId][k]
           modelData == ModelDataAfterFetch(outcome, modelId, p.config)
       IN  /\ modelMetadata' = (modelId :> p.metadata) @@ modelMetadata
           /\ models' = (modelId :> [config |-> p.config, data |-> modelData])
                            @@ models
    /\ pendingInit' = [pendingInit EXCEPT ![modelId] =
           SubSeq(@, 1, k - 1) \o SubSeq(@, k + 1, Len(@))]
    /\ ret' = [Success("initializeModel", modelId, <<>>) EXCEPT !.fetch = outcome]
    /\ UNCHANGED <<now, nCalls, okTracks, okUpdates>>

PatchOf(version) == Number(Split(version, ".")[3])

\* updateModel has no suspension point: it runs to its return in one step.
\* metadata is the object held by the map, so the assignments of lines 63-64
\* are visible in the map even when line 65 throws on a null configuration.
UpdateModel(modelId, newModelConfig, maxPatch) ==
    /\ IF modelId \notin DOMAIN models
          THEN /\ ret' = Failure("updateModel", modelId, "Model not found")
               /\ UNCHANGED <<models, modelMetadata, okUpdates>>
          ELSE LET metadata == modelMetadata[modelId]
                   bumped == [metadata EXCEPT
                                 !.version = incrementVersion(metadata.version),
                                 !.lastUpdated = now]
               IN  \* bound: at most maxPatch updates per version line and id
                   /\ PatchOf(metadata.version) < maxPatch
                   /\ okUpdates[modelId] < maxPatch
                   /\ IF newModelConfig = NullConfig
                         THEN /\ modelMetadata' =
                                     [modelMetadata EXCEPT ![modelId] = bumped]
                              /\ ret' = Failure("updateModel", modelId, "TypeError")
                              /\ UNCHANGED <<models, okUpdates>>
                         ELSE /\ modelMetadata' = [modelMetadata EXCEPT ![modelId] =
                                     [bumped EXCEPT !.parameters = newModelConfig]]
                              /\ models' = [models EXCEPT ![modelId] =
                                     [config |-> newModelConfig, data |-> NoData]]
                              /\ ret' = Success("updateModel", modelId,
                                                modelMetadata'[modelId].version)
                              /\ okUpdates' = [okUpdates EXCEPT ![modelId] = @ + 1]
    /\ UNCHANGED <<pendingInit, now, nCalls, okTracks>>

\* trackPerformance(modelId, metrics) on a registry at clock value key: the
\* snapshot is stored under the key new Date().toISOString(), replacing what
\* that key held; without a metadata entry the read of metadata.performance
\* throws and the catch returns {success:false}.
trackPerformanceCreating(registry, modelId, key, metrics) ==
    IF modelId \in DOMAIN registry
        THEN [ok |-> TRUE,
              registry |-> [registry EXCEPT ![modelId].performance =
                                (key :> metrics) @@ @]]
        ELSE [ok |-> TRUE,
              registry |-> (modelId :> [version |-> currentModelVersion,
                                        lastUpdated |-> key,
                                        parameters |-> NullConfig,
                                        performance |-> (key :> metrics)])
                               @@ registry]

trackPerformanceResult(registry, modelId, key, metrics) ==
    IF modelId \in DOMAIN registry
        THEN [ok |-> TRUE,
              registry |-> [registry EXCEPT ![modelId].performance =
                                (key :> metrics) @@ @]]
        ELSE [ok |-> FALSE, registry |-> registry]

trackPerformance(modelId, metrics) ==
    /\ LET r == trackPerformanceResult(modelMetadata, modelId, now, metrics)
       IN  /\ modelMetadata' = r.registry
           /\ ret' = IF r.ok THEN Success("trackPerformance", modelId, <<>>)
                     ELSE Failure("trackPerformance", modelId, "TypeError")
           /\ okTracks' = IF r.ok THEN okTracks \cup {<<modelId, metrics>>}
                          ELSE okTracks
    /\ UNCHANGED <<models, pendingInit, now, okUpdates>>

TrackPerformanceCall(modelId) ==
    /\ nCalls < MaxCalls
    /\ nCalls' = nCalls + 1
    /\ trackPerformance(modelId, nCalls + 1)

Tick ==
    /\ now < MaxTime
    /\ now' = now + 1
    /\ UNCHANGED <<models, modelMetadata, pendingInit, ret, nCalls, okTracks,
                   okUpdates>>

NoRet == [op |-> "none", modelId |-> "", success |-> FALSE, version |-> <<>>,
          error |-> "", fetch |-> ""]

ManagerInit ==
    /\ models = <<>>
    /\ modelMetadata = <<>>
    /\ pendingInit = [m \in ModelIds |-> <<>>]
    /\ now = 0
    /\ ret = NoRet
    /\ nCalls = 0
    /\ okTracks = {}
    /\ okUpdates = [m \in ModelIds |-> 0]

\* The profile manager and the memory aid are not loaded.
ExtensionIdle ==
    /\ profileState = <<>>
    /\ storage = <<>>
    /\ profileCall = <<>>
    /\ memoryConfig = <<>>
    /\ memoryState = <<>>

MetricsIdle ==
    /\ ExtensionIdle
    /\ analysis = <<>>
    /\ intersect = <<>>
    /\ mitigation = <<>>

IdleRest ==
    /\ consentStatus = FALSE
    /\ req = <<>>
    /\ scan = <<>>
    /\ MetricsIdle

-----------------------------------------------------------------------------
(* Category pattern scanner *)

MaxWords == 4         \* words of a scanned text
MaxPushes == 3        \* instances pushed by one findPatternMatches loop
MaxPad == 7           \* words before and after the match of a padded text

\* A text is a sequence of words separated by single spaces; a character
\* offset is computed from the lengths of the words.
Vocabulary == {"He", "she", "is", "assumed", "male", "only", "the"}

\* The spelling of a word, one character per element.
Spell(w) ==
    CASE w = "He" -> <<"H", "e">>
      [] w = "he" -> <<"h", "e">>
      [] w = "she" -> <<"s", "h", "e">>
      [] w = "is" -> <<"i", "s">>
      [] w = "assumed" -> <<"a", "s", "s", "u", "m", "e", "d">>
      [] w = "male" -> <<"m", "a", "l", "e">>
      [] w = "only" -> <<"o", "n", "l", "y">>
      [] w = "the" -> <<"t", "h", "e">>
      [] w = "to" -> <<"t", "o">>
      [] w = "be" -> <<"b", "e">>
      [] w = "manager" -> <<"m", "a", "n", "a", "g", "e", "r">>

WordLen(w) == Len(Spell(w))

\* The string a text is: its words joined by single spaces.
RECURSIVE Chars(_)
Chars(text) ==
    IF text = <<>> THEN <<>>
    ELSE IF Len(text) = 1 THEN Spell(text[1])
    ELSE Chars(SubSeq(text, 1, Len(text) - 1)) \o <<" ">> \o Spell(text[Len(text)])

\* The i flag of the patterns: letters compare without case.
LowerCase(w) == IF w = "He" THEN "he" ELSE w

Texts == UNION {[1..n -> Vocabulary] : n \in 0..MaxWords}

\* Texts of the scenarios: one match followed by other words, and a text in
\* which the second gender pattern matches before the first.
ScenarioText == <<"he", "is", "assumed", "to", "be", "the", "manager">>
TwoPatternText == <<"male", "only", "He", "is", "assumed">>

\* A match with up to MaxPad words on either side: texts long enough for the
\* context window to end inside the text on both sides.
Pad(k) == [i \in 1..k |-> "assumed"]
PaddedTexts ==
    {Pad(a) \o <<"He", "is", "assumed">> \o Pad(b) : a, b \in 0..MaxPad}

ScanTexts == Texts \cup {ScenarioText, TwoPatternText} \cup PaddedTexts

RECURSIVE TextLength(_)
TextLength(text) ==
    IF text = <<>> THEN 0
    ELSE IF Len(text) = 1 THEN WordLen(text[1])
    ELSE TextLength(SubSeq(text, 1, Len(text) - 1)) + 1 + WordLen(text[Len(text)])

\* Character offset of word i of the text.
Offset(text, i) ==
    IF i = 1 THEN 0 ELSE TextLength(SubSeq(text, 1, i - 1)) + 1

biasCategories == <<"gender", "race", "age", "disability", "socioeconomic",
                    "cultural", "language", "religion", "nationality">>

\* A pattern /\b(a|b) c d\b/i is the sequence of its words' alternatives;
\* weights are in tenths. No pattern of the table carries the g flag.
getBiasPatterns(category) ==
    CASE category = "gender" ->
            << [pattern |-> <<{"he", "she"}, {"is"}, {"assumed"}>>,
                global |-> FALSE, weight |-> 8],
               [pattern |-> <<{"male", "female"}, {"only"}>>,
                global |-> FALSE, weight |-> 9] >>
      [] category = "disability" ->
            << [pattern |-> <<{"normal", "abnormal"}, {"person"}>>,
                global |-> FALSE, weight |-> 9],
               [pattern |-> <<{"suffering", "victim"}, {"of"}>>,
                global |-> FALSE, weight |-> 7] >>
      [] OTHER -> <<>>

MatchesAt(text, pattern, i) ==
    /\ i >= 1
    /\ i + Len(pattern) - 1 <= Len(text)
    /\ \A k \in 1..Len(pattern) : LowerCase(text[i + k - 1]) \in pattern[k]

\* RegExp.prototype.exec: the word at which the leftmost match at or after the
\* start position begins, 0 for null. A regex without the g flag ignores
\* lastIndex and searches from the start of the text on every call.
exec(text, p, lastIndex) ==
    LET from == IF p.global THEN lastIndex ELSE 1
        hits == {i \in from..Len(text) : MatchesAt(text, p.pattern, i)}
    IN  IF hits = {} THEN 0
        ELSE CHOOSE i \in hits : \A j \in hits : i <= j

\* lastIndex after an exec call: advanced past the match under the g flag only.
lastIndexAfter(text, p, lastIndex) ==
    LET m == exec(text, p, lastIndex)
    IN  IF ~p.global THEN lastIndex
        ELSE IF m = 0 THEN 1
        ELSE m + Len(p.pattern)

contextSize == 50

Max(a, b) == IF a >= b THEN a ELSE b
Min(a, b) == IF a <= b THEN a ELSE b

\* String.prototype.slice(start, end) for 0 <= start and end <= length.
slice(str, start, end) == SubSeq(str, start + 1, end)

getMatchContextFromStart(text, index) ==
    LET start == Max(0, index - contextSize)
        end == Min(Len(text), start + contextSize)
    IN  slice(text, start, end)

\* getMatchContext(text, index) on the string text.
getMatchContext(text, index) ==
    LET start == Max(0, index - contextSize)
        end == Min(Len(text), index + contextSize)
    IN  slice(text, start, end)

\* The object pushed for a match that begins at word m: match[0], match.index
\* and the context.
Instance(text, p, m) ==
    [text |-> Chars(SubSeq(text, m, m + Len(p.pattern) - 1)),
     index |-> Offset(text, m),
     context |-> getMatchContext(Chars(text), Offset(text, m))]

calculateSeverity(score) ==
    IF score >= 9 THEN "critical"
    ELSE IF score >= 7 THEN "high"
    ELSE IF score >= 4 THEN "medium"
    ELSE "low"

ScanCategories == {"gender", "disability", "age"}

\* analyzeCategoryBias(content, category), one exec call per step: pi is the
\* pattern being matched, matches the array of findPatternMatches.
InitScan ==
    /\ ManagerInit
    /\ consentStatus = FALSE
    /\ req = <<>>
    /\ MetricsIdle
    /\ \E text \in ScanTexts, category \in ScanCategories :
          scan = [text |-> text, category |-> category, pi |-> 1,
                  lastIndex |-> 1, matches |-> <<>>, beyond |-> 0,
                  instances |-> <<>>,
                  score |-> 0, severity |-> "", pc |-> "patterns"]

ScanPattern == getBiasPatterns(scan.category)[scan.pi]

\* while ((match = pattern.pattern.exec(text)) !== null) matches.push(...)
\* matches keeps the first MaxPushes entries of the array; beyond is the
\* number of further pushes, modulo 2.
ExecMatch ==
    /\ scan.pc = "patterns"
    /\ scan.pi <= Len(getBiasPatterns(scan.category))
    /\ exec(scan.text, ScanPattern, scan.lastIndex) # 0
    /\ scan' = [scan EXCEPT
           !.matches = IF Len(@) < MaxPushes
                          THEN Append(@, Instance(scan.text, ScanPattern,
                                   exec(scan.text, ScanPattern, scan.lastIndex)))
                          ELSE @,
           !.beyond = IF Len(scan.matches) < MaxPushes THEN @ ELSE 1 - @,
           !.lastIndex = lastIndexAfter(scan.text, ScanPattern, scan.lastIndex)]
    /\ UNCHANGED <<managerVars, consentStatus, req, metricsVars, extensionVars>>

\* exec returned null: findPatternMatches returns, the score and the
\* instances are accumulated and the loop moves to the next pattern.
ExecNull ==
    /\ scan.pc = "patterns"
    /\ scan.pi <= Len(getBiasPatterns(scan.category))
    /\ exec(scan.text, ScanPattern, scan.lastIndex) = 0
    /\ scan' = [scan EXCEPT
           !.score = IF Len(scan.matches) > 0
                        THEN @ + Len(scan.matches) * ScanPattern.weight
                        ELSE @,
           !.instances = @ \o scan.matches,
           !.matches = <<>>,
           !.beyond = 0,
           !.lastIndex = 1,
           !.pi = @ + 1]
    /\ UNCHANGED <<managerVars, consentStatus, req, metricsVars, extensionVars>>

ScanReturn ==
    /\ scan.pc = "patterns"
    /\ scan.pi > Len(getBiasPatterns(scan.category))
    /\ scan' = [scan EXCEPT !.pc = "done",
                            !.severity = calculateSeverity(scan.score)]
    /\ UNCHANGED <<managerVars, consentStatus, req, metricsVars, extensionVars>>

NextScan == ExecMatch \/ ExecNull \/ ScanReturn

SpecScan == InitScan /\ [][NextScan]_vars

\* The scan is one synchronous loop: while a step is possible it is taken.
SpecScanFair == SpecScan /\ WF_vars(NextScan)

\* The number of non-overlapping matches of a pattern in a text, counted from
\* word i on.
RECURSIVE CountMatches(_, _, _)
CountMatches(text, pattern, i) ==
    LET hits == {j \in i..Len(text) : MatchesAt(text, pattern, j)}
    IN  IF hits = {} THEN 0
        ELSE LET m == CHOOSE j \in hits : \A k \in hits : j <= k
             IN  1 + CountMatches(text, pattern, m + Len(pattern))

\* C10 (as claimed): the scan of a pattern holds at most one instance per
\* non-overlapping match of the pattern, and a finished category scan holds
\* exactly one per match with score = sum of matchCount * weight.
C10_OneInstancePerMatch ==
    LET patterns == getBiasPatterns(scan.category)
        total(f(_)) == LET RECURSIVE Sum(_)
                           Sum(k) == IF k = 0 THEN 0 ELSE Sum(k - 1) + f(k)
                       IN  Sum(Len(patterns))
        count(k) == CountMatches(scan.text, patterns[k].pattern, 1)
        weighted(k) == count(k) * patterns[k].weight
    IN  /\ scan.pc = "patterns" /\ scan.pi <= Len(patterns) =>
               Len(scan.matches) <= count(scan.pi)
        /\ scan.pc = "done" =>
               /\ Len(scan.instances) = total(count)
               /\ scan.score = total(weighted)

\* C11 (as claimed): the gender scan of "he is assumed to be the manager"
\* yields exactly one instance, and returns the category score 0.8 with
\* severity 'medium'.
C11_ScenarioScan ==
    (scan.text = ScenarioText /\ scan.category = "gender") =>
        /\ Len(scan.matches) <= 1
        /\ Len(scan.instances) <= 1
        /\ scan.pc = "done" =>
               /\ Len(scan.instances) = 1
               /\ scan.score = 8
               /\ scan.severity = "medium"

ScanInstances ==
    {scan.matches[i] : i \in 1..Len(scan.matches)}
        \cup {scan.instances[i] : i \in 1..Len(scan.instances)}

\* C13: every instance of a scan of text T lies inside T: 0 <= index,
\* index + length(text) <= length(T), its text is the substring of T at index,
\* and its context is T from max(0, index - 50) to min(length(T), index + 50).
C13_InstanceWithinText ==
    LET T == Chars(scan.text)
    IN  \A inst \in ScanInstances :
            /\ 0 <= inst.index
            /\ inst.index + Len(inst.text) <= Len(T)
            /\ inst.text = [k \in 1..Len(inst.text) |-> T[inst.index + k]]
            /\ LET from == IF inst.index > 50 THEN inst.index - 50 ELSE 0
                   to == IF inst.index + 50 < Len(T) THEN inst.index + 50
                         ELSE Len(T)
               IN  inst.context = [k \in 1..(to - from) |-> T[from + k]]

\* C13 witness: an instance more than 50 characters from either end of the
\* text, whose context is cut on both sides.
C13_Witness ==
    \E inst \in ScanInstances :
        /\ inst.index > 50
        /\ inst.index + 50 < Len(Chars(scan.text))
        /\ Len(inst.context) = 100
        /\ inst.text = <<"H", "e", " ", "i", "s", " ", "a", "s", "s", "u", "m",
                         "e", "d">>

Ordered(instances) ==
    \A i, j \in 1..Len(instances) :
        i <= j => instances[i].index <= instances[j].index

\* C14 (as claimed): every scan returns a CategoryScore, and the instances of
\* the returned score are in non-decreasing order of position.
C14_ScanReturnsOrdered ==
    <>(scan.pc = "done" /\ Ordered(scan.instances))

-----------------------------------------------------------------------------
(* Privacy handler and bias detection coordinator *)

MaxRequests == 2      \* analyzeContent requests issued in one behaviour

CoordTexts == {<<>>, <<"the", "male">>, <<"He", "is", "assumed">>}
Contents == [text : CoordTexts]

\* What `processedContent` is bound to: an object or undefined.
Undefined == [defined |-> FALSE, hasText |-> FALSE, text |-> <<>>]

\* applyPrivacyMeasures builds a new object from userIdentifiers, location and
\* features only: no other field of the input, text included, is copied.
applyPrivacyMeasures(data) ==
    [defined |-> TRUE, hasText |-> FALSE, text |-> <<>>]

processDataUnchecked(data, consent) ==
    [success |-> TRUE, data |-> applyPrivacyMeasures(data)]

\* processData catches its own 'User consent not provided' error and returns
\* {success:false, error}: the returned object has no data field.
processData(data, consent) ==
    IF ~consent THEN [success |-> FALSE, data |-> Undefined]
    ELSE [success |-> TRUE, data |-> applyPrivacyMeasures(data)]

\* const text = content.text || ''
TextOf(content) == IF content.hasText THEN content.text ELSE <<>>

\* A findPatternMatches loop on a text with a match of a pattern never returns.
ScanDiverges(text) ==
    \E i \in 1..Len(biasCategories) :
        \E k \in 1..Len(getBiasPatterns(biasCategories[i])) :
            exec(text, getBiasPatterns(biasCategories[i])[k], 1) # 0

\* The CategoryScore of a category scan that returns: no pattern of the
\* category has a match in the text, the score stays 0 and instances empty.
analyzeCategoryBias(text, category) ==
    [score |-> 0, instances |-> <<>>, severity |-> calculateSeverity(0)]

detectBiasUnfiltered(processedContent) ==
    {biasCategories[i] : i \in 1..Len(biasCategories)}

\* detectBias: the keys of detectedBias, the categories whose score is > 0.
detectBias(processedContent) ==
    {c \in {biasCategories[i] : i \in 1..Len(biasCategories)} :
        analyzeCategoryBias(TextOf(processedContent), c).score > 0}

\* calculateConfidence(results), in tenths: 0 for a result without category,
\* some value of [0, 1] otherwise.
calculateConfidence(results) == IF results = {} THEN {0} ELSE 0..10

\* extractContext, getUserPreferences, updateAdaptiveThresholds,
\* calculateConfidence and getPerformanceMetrics are called by analyzeContent
\* and defined nowhere in the class: a call either raises a TypeError or, where
\* the method is provided, returns without touching the registry.
HelperOutcomes == {"returns", "throws"}

\* A failure object has neither biasDetected nor confidence: {} and -1 here.
NoResult == [success |-> FALSE, error |-> "none", biasDetected |-> {},
             confidence |-> -1]

IdleReq ==
    [n |-> 0, pc |-> "Idle", content |-> [text |-> <<>>],
     processed |-> Undefined, consented |-> FALSE, privacyOk |-> FALSE,
     scans |-> 0, results |-> {},
     stages |-> <<>>, tracked |-> "none", result |-> NoResult, base |-> 0,
     done |-> <<>>]

HistoryNow ==
    IF CoordinatorModelId \in DOMAIN modelMetadata
        THEN Cardinality(DOMAIN modelMetadata[CoordinatorModelId].performance)
        ELSE 0

\* The statements of analyzeContent in program order.
NextStepAggregateFirst(pc) ==
    CASE pc = "processData" -> "extractContext"
      [] pc = "extractContext" -> "detectBias"
      [] pc = "detectBias" -> "intersections"
      [] pc = "intersections" -> "mitigation"
      [] pc = "mitigation" -> "trackMetrics"
      [] pc = "trackMetrics" -> "updateThresholds"
      [] pc = "updateThresholds" -> "report"

NextStep(pc) ==
    CASE pc = "processData" -> "extractContext"
      [] pc = "extractContext" -> "detectBias"
      [] pc = "detectBias" -> "mitigation"
      [] pc = "mitigation" -> "trackMetrics"
      [] pc = "trackMetrics" -> "updateThresholds"
      [] pc = "updateThresholds" -> "intersections"
      [] pc = "intersections" -> "report"

\* The catch block of analyzeContent: {success:false, error: error.message}.
Failed(r, msg) ==
    [r EXCEPT !.pc = "Idle",
              !.stages = Append(@, "Reporting"),
              !.result = [success |-> FALSE, error |-> msg,
                          biasDetected |-> {}, confidence |-> -1],
              !.done = Append(@, [success |-> FALSE, tracked |-> r.tracked])]

StartAnalyze(content) ==
    /\ req.pc = "Idle"
    /\ req.n < MaxRequests
    /\ req' = [IdleReq EXCEPT !.n = req.n + 1,
                              !.pc = "processData",
                              !.content = content,
                              !.base = IF req.n = 0 THEN HistoryNow ELSE req.base,
                              !.done = req.done]
    /\ UNCHANGED <<managerVars, consentStatus, scan, metricsVars, extensionVars>>

\* const { data: processedContent, metadata } = await privacyHandler.processData(...)
ProcessData ==
    /\ req.pc = "processData"
    /\ LET r == processData(req.content, consentStatus)
       IN  req' = [req EXCEPT !.pc = NextStep(req.pc),
                              !.stages = Append(@, "Preprocessing"),
                              !.consented = consentStatus,
                              !.privacyOk = r.success,
                              !.processed = r.data]
    /\ UNCHANGED <<managerVars, consentStatus, scan, metricsVars, extensionVars>>

ExtractContext(outcome) ==
    /\ req.pc = "extractContext"
    /\ req' = IF outcome = "throws" THEN Failed(req, "TypeError")
              ELSE [req EXCEPT !.pc = NextStep(req.pc)]
    /\ UNCHANGED <<managerVars, consentStatus, scan, metricsVars, extensionVars>>

\* detectBias: one analyzeCategoryBias per category, in the order of
\* biasCategories. findPatternMatches reads content.text, which throws on an
\* undefined content at the first category that has patterns.
DetectBias ==
    /\ req.pc = "detectBias"
    /\ req' = IF ~req.processed.defined
                  THEN Failed([req EXCEPT !.stages = Append(@, "Scanning")],
                              "TypeError")
              ELSE IF ScanDiverges(TextOf(req.processed))
                  THEN [req EXCEPT !.pc = "hung",
                                   !.stages = Append(@, "Scanning")]
              ELSE [req EXCEPT !.pc = NextStep(req.pc),
                               !.stages = Append(@, "Scanning"),
                               !.scans = Len(biasCategories),
                               !.results = detectBias(req.processed)]
    /\ UNCHANGED <<managerVars, consentStatus, scan, metricsVars, extensionVars>>

\* generateMitigationStrategies(results, {..., userPreferences:
\* await this.getUserPreferences()}): the argument is evaluated first.
Mitigation(outcome) ==
    /\ req.pc = "mitigation"
    /\ req' = IF outcome = "throws" THEN Failed(req, "TypeError")
              ELSE [req EXCEPT !.pc = NextStep(req.pc),
                               !.stages = Append(@, "Mitigating")]
    /\ UNCHANGED <<managerVars, consentStatus, scan, metricsVars, extensionVars>>

\* trackAnalysisMetrics awaits modelManager.trackPerformance and drops the
\* value it returns.
TrackMetrics ==
    /\ req.pc = "trackMetrics"
    /\ nCalls' = nCalls + 1
    /\ trackPerformance(CoordinatorModelId, nCalls + 1)
    /\ req' = [req EXCEPT !.pc = NextStep(req.pc),
                          !.tracked = IF ret'.success THEN "ok" ELSE "failed"]
    /\ UNCHANGED <<consentStatus, scan, metricsVars, extensionVars>>

UpdateThresholds(outcome) ==
    /\ req.pc = "updateThresholds"
    /\ req' = IF outcome = "throws" THEN Failed(req, "TypeError")
              ELSE [req EXCEPT !.pc = NextStep(req.pc)]
    /\ UNCHANGED <<managerVars, consentStatus, scan, metricsVars, extensionVars>>

Intersections ==
    /\ req.pc = "intersections"
    /\ req' = [req EXCEPT !.pc = NextStep(req.pc),
                          !.stages = Append(@, "Aggregating")]
    /\ UNCHANGED <<managerVars, consentStatus, scan, metricsVars, extensionVars>>

\* The returned object: calculateConfidence and getPerformanceMetrics are
\* called while it is built.
Report(outcome) ==
    /\ req.pc = "report"
    /\ \E confidence \in calculateConfidence(req.results) :
           req' = IF outcome = "throws" THEN Failed(req, "TypeError")
                  ELSE [req EXCEPT !.pc = "Idle",
                                   !.stages = Append(@, "Reporting"),
                                   !.result = [success |-> TRUE, error |-> "",
                                               biasDetected |-> req.results,
                                               confidence |-> confidence],
                                   !.done = Append(@, [success |-> TRUE,
                                                       tracked |-> req.tracked])]
    /\ UNCHANGED <<managerVars, consentStatus, scan, metricsVars, extensionVars>>

updateSettings(consent) ==
    /\ consentStatus' = consent
    /\ consentStatus # consent
    /\ UNCHANGED <<managerVars, req, scan, metricsVars, extensionVars>>

\* The state after the modules are loaded: the constructor of
\* BiasDetectionSystem has called initialize(), whose initializeModel is
\* suspended at its fetch.
Init ==
    /\ models = <<>>
    /\ modelMetadata = <<>>
    /\ now = 0
    /\ pendingInit = [m \in ModelIds |->
           IF m = CoordinatorModelId
               THEN <<[config |-> "modelConfig",
                       metadata |-> NewMetadata("modelConfig")]>>
               ELSE <<>>]
    /\ ret = NoRet
    /\ nCalls = 0
    /\ okTracks = {}
    /\ okUpdates = [m \in ModelIds |-> 0]
    /\ consentStatus = FALSE
    /\ req = IdleReq
    /\ scan = <<>>
    /\ MetricsIdle

\* biasDetectionSystem.initialize() called again (performBackgroundTask).
Initialize ==
    /\ InitializeModelStart(CoordinatorModelId, "modelConfig")
    /\ UNCHANGED <<consentStatus, req, scan, metricsVars, extensionVars>>

FetchResolves ==
    /\ \E k \in 1..MaxPending, o \in FetchOutcomes :
           InitializeModelFinish(CoordinatorModelId, k, o)
    /\ UNCHANGED <<consentStatus, req, scan, metricsVars, extensionVars>>

ClockTick == Tick /\ UNCHANGED <<consentStatus, req, scan, metricsVars, extensionVars>>

Next ==
    \/ Initialize
    \/ FetchResolves
    \/ ClockTick
    \/ \E c \in BOOLEAN : updateSettings(c)
    \/ \E c \in Contents : StartAnalyze(c)
    \/ ProcessData
    \/ \E o \in HelperOutcomes : ExtractContext(o)
    \/ DetectBias
    \/ \E o \in HelperOutcomes : Mitigation(o)
    \/ TrackMetrics
    \/ \E o \in HelperOutcomes : UpdateThresholds(o)
    \/ Intersections
    \/ \E o \in HelperOutcomes : Report(o)

Spec == Init /\ [][Next]_vars

-----------------------------------------------------------------------------
(* The registry under direct calls of its operations *)

\* The one caller of initializeModel, BiasDetectionSystem.initialize, passes its
\* own model id; updateModel and trackPerformance take any id.
InitRegistry == ManagerInit /\ IdleRest

CallInitializeModel ==
    /\ \E c \in ConfigArgs : InitializeModelStart(CoordinatorModelId, c)
    /\ UNCHANGED <<consentStatus, req, scan, metricsVars, extensionVars>>

CallUpdateModel ==
    /\ \E m \in ModelIds, c \in ConfigArgs : UpdateModel(m, c, MaxPatch)
    /\ UNCHANGED <<consentStatus, req, scan, metricsVars, extensionVars>>

CallTrackPerformance ==
    /\ \E m \in ModelIds : TrackPerformanceCall(m)
    /\ UNCHANGED <<consentStatus, req, scan, metricsVars, extensionVars>>

NextRegistry ==
    \/ CallInitializeModel
    \/ FetchResolves
    \/ CallUpdateModel
    \/ CallTrackPerformance
    \/ ClockTick

SpecRegistry == InitRegistry /\ [][NextRegistry]_vars

-----------------------------------------------------------------------------
(* The version line of a model under initializeModel and updateModel *)

CallUpdateModelLong ==
    /\ \E m \in ModelIds, c \in ConfigArgs : UpdateModel(m, c, MaxPatchLong)
    /\ UNCHANGED <<consentStatus, req, scan, metricsVars, extensionVars>>

NextVersion ==
    \/ CallInitializeModel
    \/ FetchResolves
    \/ CallUpdateModelLong

SpecVersion == InitRegistry /\ [][NextVersion]_vars

-----------------------------------------------------------------------------
(* Properties of the registry *)

Range(f) == {f[x] : x \in DOMAIN f}

HistorySize(m) == Cardinality(DOMAIN modelMetadata[m].performance)

ParseVersion(version) ==
    LET parts == Split(version, ".")
    IN  <<Number(parts[1]), Number(parts[2]), Number(parts[3])>>

VersionLess(a, b) ==
    \/ a[1] < b[1]
    \/ a[1] = b[1] /\ a[2] < b[2]
    \/ a[1] = b[1] /\ a[2] = b[2] /\ a[3] < b[3]

FetchFailures == FetchOutcomes \ {"ok"}

\* C5 (as claimed): over initializeModel, updateModel and trackPerformance
\* calls the number of entries of a model's performance history never
\* decreases.
C5_HistoryNeverShrinks ==
    [][\A m \in DOMAIN modelMetadata :
          /\ m \in DOMAIN modelMetadata'
          /\ Cardinality(DOMAIN modelMetadata'[m].performance) >= HistorySize(m)]_vars

\* C6: a successful updateModel keeps major and minor, adds exactly 1 to
\* patch, so the stored version grows in the lexicographic order, and the
\* version it returns is the stored one.
C6_UpdateIncrementsPatch ==
    [][\A m \in ModelIds :
          okUpdates'[m] = okUpdates[m] + 1 =>
              LET old == ParseVersion(modelMetadata[m].version)
                  new == ParseVersion(modelMetadata'[m].version)
              IN  /\ new[1] = old[1]
                  /\ new[2] = old[2]
                  /\ new[3] = old[3] + 1
                  /\ VersionLess(old, new)
                  /\ ret'.op = "updateModel" /\ ret'.success
                  /\ ret'.version = modelMetadata'[m].version]_vars

\* C6 witness: an update has returned the two-digit patch version 1.0.10.
C6_Witness ==
    /\ ret.op = "updateModel" /\ ret.success
    /\ ret.version = <<"1", ".", "0", ".", "1", "0">>
    /\ modelMetadata[CoordinatorModelId].version = ret.version

CallOnId(m) ==
    \/ \E c \in ConfigArgs : UpdateModel(m, c, MaxPatch)
    \/ TrackPerformanceCall(m)

\* C7: updateModel and trackPerformance on an id without registry entries
\* return {success:false} and change neither models nor modelMetadata.
C7_UnknownIdFailsUnchanged ==
    [][\A m \in ModelIds :
          (m \notin DOMAIN modelMetadata /\ m \notin DOMAIN models /\ CallOnId(m)) =>
              /\ ret'.success = FALSE
              /\ ret'.modelId = m
              /\ models' = models
              /\ modelMetadata' = modelMetadata]_vars

\* C7 witness: trackPerformance on the unregistered id has just failed while
\* another id holds entries with a recorded snapshot.
C7_Witness ==
    /\ ret.op = "trackPerformance" /\ ret.modelId = UnregisteredModelId
    /\ ret.success = FALSE
    /\ UnregisteredModelId \notin DOMAIN modelMetadata
    /\ CoordinatorModelId \in DOMAIN modelMetadata
    /\ HistorySize(CoordinatorModelId) > 0

\* C8: an initializeModel whose fetch failed returns {success:true, modelId}
\* and has stored a metadata entry and a model entry holding the fallback
\* stub, tagged fallbackMode = true.
C8_FetchFailureFallsBack ==
    (ret.op = "initializeModel" /\ ret.fetch \in FetchFailures) =>
        /\ ret.success
        /\ ret.modelId \in DOMAIN modelMetadata
        /\ ret.modelId \in DOMAIN models
        /\ models[ret.modelId].data.source = "fallback"
        /\ models[ret.modelId].data.id = ret.modelId
        /\ models[ret.modelId].data.fallbackMode = TRUE

\* C8 witness: an initializeModel whose fetch timed out has returned.
C8_Witness ==
    /\ ret.op = "initializeModel" /\ ret.fetch = "timeout" /\ ret.success
    /\ models[ret.modelId].data.fallbackMode

\* C9 (as claimed): once no initializeModel is suspended, the version of every
\* model counts every successful update and its history holds the snapshot of
\* every trackPerformance call that returned success.
C9_NoLostUpdate ==
    (\A m \in ModelIds : pendingInit[m] = <<>>) =>
        \A m \in DOMAIN modelMetadata :
            /\ PatchOf(modelMetadata[m].version) >= okUpdates[m]
            /\ \A t \in okTracks :
                   t[1] = m => t[2] \in Range(modelMetadata[m].performance)

\* C27 (as claimed): over initializeModel and updateModel calls the version
\* stored for a model id never decreases and no recorded snapshot leaves its
\* history; a second initializeModel of an existing id resets neither.
C27_VersionAndHistoryKept ==
    [][\A m \in DOMAIN modelMetadata :
          /\ m \in DOMAIN modelMetadata'
          /\ ~VersionLess(ParseVersion(modelMetadata'[m].version),
                          ParseVersion(modelMetadata[m].version))
          /\ DOMAIN modelMetadata[m].performance
                 \subseteq DOMAIN modelMetadata'[m].performance]_vars

-----------------------------------------------------------------------------
(* Properties of the coordinator *)

RequestDone == req.n > 0 /\ req.pc = "Idle"

\* C1: a request preprocessed while consentStatus is false returns
\* {success:false, error}; no category scan completes on its content and it
\* makes no trackPerformance call.
C1_NoConsentNoProcessing ==
    (req.n > 0 /\ ~req.consented) =>
        /\ req.scans = 0
        /\ req.tracked = "none"
        /\ req.pc \in {"processData", "extractContext", "detectBias", "Idle"}
        /\ req.pc = "Idle" => (~req.result.success /\ req.result.error # "")

\* C1 witness: a request made without consent has reached the scanner with an
\* undefined content and has returned its failure.
C1_Witness ==
    /\ RequestDone /\ ~req.consented
    /\ req.stages = <<"Preprocessing", "Scanning", "Reporting">>
    /\ ~req.result.success

SpecStageOrder ==
    <<"Preprocessing", "Scanning", "Aggregating", "Mitigating", "Reporting">>

CodeStageOrder ==
    <<"Preprocessing", "Scanning", "Mitigating", "Aggregating", "Reporting">>

IsPrefix(a, b) == Len(a) <= Len(b) /\ SubSeq(b, 1, Len(a)) = a

C4_TwoAnalysesAddTwo ==
    (/\ req.pc = "Idle"
     /\ Len(req.done) = 2
     /\ \A i \in 1..2 : req.done[i].success /\ req.done[i].tracked = "ok")
        => HistoryNow = req.base + 2

MatchedCategories(text) ==
    {biasCategories[i] : i \in
        {j \in 1..Len(biasCategories) :
            \E k \in 1..Len(getBiasPatterns(biasCategories[j])) :
                exec(text, getBiasPatterns(biasCategories[j])[k], 1) # 0}}

\* C29 (as claimed): with consent granted the sanitized content carries the
\* text of the submitted content, and the result reported for a content with
\* a match of category c contains c.
C29_ScannerGetsSubmittedText ==
    (req.n > 0 /\ req.consented) =>
        /\ req.processed.defined
        /\ TextOf(req.processed) = req.content.text
        /\ (req.pc = "Idle" /\ req.result.success) =>
               MatchedCategories(req.content.text) \subseteq req.result.biasDetected

-----------------------------------------------------------------------------
(* Statistical bias analysis of a prediction batch (src/unnamed/part_011) *)

MaxBatch == 3         \* predictions in a batch

\* Numbers: non-negative rationals in lowest terms, and NaN.
RECURSIVE GCD(_, _)
GCD(a, b) == IF b = 0 THEN a ELSE GCD(b, a % b)

NaN == [kind |-> "NaN", num |-> 0, den |-> 1]

Rat(n, d) ==
    LET g == GCD(n, d)
    IN  [kind |-> "number", num |-> n \div g, den |-> d \div g]

IsNumber(x) == x.kind = "number"
RatLeq(x, y) == x.num * y.den <= y.num * x.den
RatLess(x, y) == x.num * y.den < y.num * x.den
RatAdd(x, y) ==
    IF IsNumber(x) /\ IsNumber(y)
        THEN Rat(x.num * y.den + y.num * x.den, x.den * y.den)
        ELSE NaN

\* x / y for finite x >= 0 and y >= 0 with x <= y: 0 / 0 is NaN.
Quotient(x, y) ==
    IF ~IsNumber(x) \/ ~IsNumber(y) THEN NaN
    ELSE IF y.num = 0 THEN NaN
    ELSE Rat(x.num * y.den, x.den * y.num)

CONFIDENCE_THRESHOLD == 8     \* 0.8, predictions being in tenths

PROTECTED_ATTRIBUTES == <<"gender", "age", "ethnicity", "disability", "language">>

\* The inputs: predictions at and above the threshold, two attribute values,
\* and metadata that labels every prediction for some of the attributes.
PredictionValues == {8, 9}
AttributeValues == {"A", "B"}
MetadataAttributes == {"gender", "age"}

Batches == UNION {[1..n -> PredictionValues] : n \in 0..MaxBatch}
Labellings(n) ==
    UNION {[attrs -> [1..n -> AttributeValues]] : attrs \in SUBSET MetadataAttributes}

\* The forEach of calculateDisparateImpact over the first n attribute values:
\* a group whose favorable count is still 0 is initialised again, its count
\* included (`!favorableOutcomes[value]` is true of 0 as of undefined).
RECURSIVE countOutcomes(_, _, _)
countOutcomes(predArray, attributeValues, n) ==
    IF n = 0 THEN [favorableOutcomes |-> <<>>, groupCounts |-> <<>>]
    ELSE LET prev == countOutcomes(predArray, attributeValues, n - 1)
             value == attributeValues[n]
             init == \/ value \notin DOMAIN prev.favorableOutcomes
                     \/ prev.favorableOutcomes[value] = 0
             fav0 == IF init THEN 0 ELSE prev.favorableOutcomes[value]
             cnt0 == IF init THEN 0 ELSE prev.groupCounts[value]
             favorable == n <= Len(predArray) /\ predArray[n] > CONFIDENCE_THRESHOLD
         IN  [favorableOutcomes |->
                  (value :> (IF favorable THEN fav0 + 1 ELSE fav0))
                      @@ prev.favorableOutcomes,
              groupCounts |-> (value :> cnt0 + 1) @@ prev.groupCounts]

\* Math.min(...ratios) / Math.max(...ratios); of no ratio at all it is
\* Infinity / -Infinity, which is NaN.
calculateDisparateImpact(predArray, attributeValues) ==
    LET c == countOutcomes(predArray, attributeValues, Len(attributeValues))
        groups == DOMAIN c.favorableOutcomes
        ratio(g) == Rat(c.favorableOutcomes[g], c.groupCounts[g])
    IN  IF groups = {} THEN NaN
        ELSE LET lo == CHOOSE g \in groups :
                           \A h \in groups : RatLeq(ratio(g), ratio(h))
                 hi == CHOOSE g \in groups :
                           \A h \in groups : RatLeq(ratio(h), ratio(g))
             IN  Quotient(ratio(lo), ratio(hi))

\* calculateDistribution and the minimum of its values, as count and total.
calculateDistribution(values) ==
    [v \in {values[i] : i \in 1..Len(values)} |->
        Rat(Cardinality({i \in 1..Len(values) : values[i] = v}), Len(values))]

\* checkRepresentation: the attributes with a group below 10% of the batch.
checkRepresentation(metadata) ==
    {a \in DOMAIN metadata :
        \E v \in DOMAIN calculateDistribution(metadata[a]) :
            RatLess(calculateDistribution(metadata[a])[v], Rat(1, 10))}

\* analyzePredictionDistribution is computed by the tensor library: it finds
\* the batch skewed or not, or throws.
DistributionOutcomes == {"skewed", "not-skewed", "throws"}

detectSystematicBias(distribution, metadata) ==
    IF distribution = "throws" THEN [patterns |-> <<>>, severity |-> "low"]
    ELSE LET skew == IF distribution = "skewed"
                        THEN <<"skewed_predictions">> ELSE <<>>
             under == checkRepresentation(metadata) # {}
         IN  [patterns |-> IF under THEN Append(skew, "underrepresentation")
                           ELSE skew,
              severity |-> IF under THEN "high"
                           ELSE IF distribution = "skewed" THEN "medium"
                           ELSE "low"]

RECURSIVE SumScores(_, _)
SumScores(disparateImpact, attrs) ==
    IF attrs = {} THEN Rat(0, 1)
    ELSE LET a == CHOOSE x \in attrs : TRUE
         IN  RatAdd(disparateImpact[a], SumScores(disparateImpact, attrs \ {a}))

\* calculateConfidenceScore: the mean of the ratios clamped to [0, 1]; a NaN
\* passes through Math.min and Math.max, and the mean of no ratio is 0 / 0.
calculateConfidenceScore(disparateImpact) ==
    LET n == Cardinality(DOMAIN disparateImpact)
        sum == SumScores(disparateImpact, DOMAIN disparateImpact)
    IN  IF n = 0 \/ ~IsNumber(sum) THEN NaN
        ELSE LET avgScore == Rat(sum.num, sum.den * n)
             IN  IF RatLess(Rat(1, 1), avgScore) THEN Rat(1, 1) ELSE avgScore

NoAnalysisResult ==
    [kind |-> "none", disparateImpact |-> <<>>,
     systematicBias |-> [patterns |-> <<>>, severity |-> "low"],
     timestamp |-> 0, confidenceScore |-> NaN]

\* A call detectBias(predictions, metadata): predictions is a tensor holding
\* predArray, or a value without array() (isTensor false).
InitAnalysis ==
    /\ ManagerInit
    /\ ExtensionIdle
    /\ consentStatus = FALSE
    /\ req = <<>>
    /\ scan = <<>>
    /\ intersect = <<>>
    /\ mitigation = <<>>
    /\ \E predArray \in Batches, isTensor \in BOOLEAN :
          \E metadata \in Labellings(Len(predArray)) :
              analysis = [pc |-> "disparateImpact", isTensor |-> isTensor,
                          predArray |-> predArray, metadata |-> metadata,
                          result |-> NoAnalysisResult]

\* The loop over PROTECTED_ATTRIBUTES: predictions.array() throws on a value
\* that is no tensor and the outer catch returns null.
DisparateImpacts ==
    /\ analysis.pc = "disparateImpact"
    /\ LET present == {PROTECTED_ATTRIBUTES[i] : i \in 1..Len(PROTECTED_ATTRIBUTES)}
                          \cap DOMAIN analysis.metadata
       IN  IF present # {} /\ ~analysis.isTensor
               THEN analysis' = [analysis EXCEPT !.pc = "returned",
                                                 !.result.kind = "null"]
               ELSE analysis' = [analysis EXCEPT
                        !.pc = "systematicBias",
                        !.result.disparateImpact =
                            [a \in present |->
                                calculateDisparateImpact(analysis.predArray,
                                                         analysis.metadata[a])]]
    /\ UNCHANGED <<managerVars, consentStatus, req, scan, intersect, mitigation,
                 extensionVars>>

SystematicBias(distribution) ==
    /\ analysis.pc = "systematicBias"
    /\ ~analysis.isTensor => distribution = "throws"
    /\ analysis' = [analysis EXCEPT
           !.pc = "return",
           !.result.systematicBias =
               detectSystematicBias(distribution, analysis.metadata)]
    /\ UNCHANGED <<managerVars, consentStatus, req, scan, intersect, mitigation,
                 extensionVars>>

\* return {...biasMetrics, systematicBias, timestamp, confidenceScore}
AnalysisReturn ==
    /\ analysis.pc = "return"
    /\ analysis' = [analysis EXCEPT
           !.pc = "returned",
           !.result.kind = "metrics",
           !.result.timestamp = now,
           !.result.confidenceScore =
               calculateConfidenceScore(analysis.result.disparateImpact)]
    /\ UNCHANGED <<managerVars, consentStatus, req, scan, intersect, mitigation,
                 extensionVars>>

NextAnalysis ==
    \/ DisparateImpacts
    \/ \E d \in DistributionOutcomes : SystematicBias(d)
    \/ AnalysisReturn

SpecAnalysis == InitAnalysis /\ [][NextAnalysis]_vars

\* The favorable-outcome rate of the partition of a batch with value g.
PartitionRate(predArray, attributeValues, g) ==
    LET members == {i \in 1..Len(attributeValues) : attributeValues[i] = g}
    IN  Rat(Cardinality({i \in members : predArray[i] > CONFIDENCE_THRESHOLD}),
            Cardinality(members))

EqualRates(predArray, attributeValues) ==
    \A g, h \in {attributeValues[i] : i \in 1..Len(attributeValues)} :
        PartitionRate(predArray, attributeValues, g)
            = PartitionRate(predArray, attributeValues, h)

\* C15 (as claimed): for a non-empty batch every disparate-impact ratio is a
\* number of (0, 1], and it is 1 exactly when all partitions of the attribute
\* have the same favorable-outcome rate.
C15_DisparateImpactRange ==
    (analysis.pc # "disparateImpact" /\ Len(analysis.predArray) > 0) =>
        \A a \in DOMAIN analysis.result.disparateImpact :
            LET di == analysis.result.disparateImpact[a]
            IN  /\ IsNumber(di)
                /\ di.num > 0
                /\ di.num <= di.den
                /\ (di = Rat(1, 1)) <=>
                       EqualRates(analysis.predArray, analysis.metadata[a])

\* C16 (as claimed): the analysis of an empty batch (a tensor without
\* predictions) ends in an InsufficientDataError and returns no metrics object.
C16_EmptyBatchFails ==
    (analysis.pc = "returned" /\ analysis.isTensor
         /\ Len(analysis.predArray) = 0) =>
        /\ analysis.result.kind = "InsufficientDataError"
        /\ analysis.result.kind # "metrics"

\* The mean of the ratios clamped to [0, 1], and 0 where there is no ratio.
ClampedMean(disparateImpact) ==
    LET n == Cardinality(DOMAIN disparateImpact)
        sum == SumScores(disparateImpact, DOMAIN disparateImpact)
    IN  IF n = 0 THEN Rat(0, 1)
        ELSE IF ~IsNumber(sum) THEN NaN
        ELSE LET mean == Rat(sum.num, sum.den * n)
             IN  IF RatLess(Rat(1, 1), mean) THEN Rat(1, 1) ELSE mean

\* C26 (as claimed): the confidence score of the returned metrics is the mean
\* of the computed ratios clamped to [0, 1], and it is the number 0 when the
\* metadata carries no protected attribute.
C26_ConfidenceScoreMean ==
    (analysis.pc = "returned" /\ analysis.result.kind = "metrics") =>
        /\ analysis.result.confidenceScore
               = ClampedMean(analysis.result.disparateImpact)
        /\ DOMAIN analysis.result.disparateImpact = {} =>
               analysis.result.confidenceScore = Rat(0, 1)

-----------------------------------------------------------------------------
(* Intersectional analysis (src/src/background/intersectionalAnalysis.js) *)

MaxScore == 10        \* category scores of the input, in tenths

intersectionCategories ==
    << <<"gender", "race">>, <<"gender", "age">>, <<"race", "disability">>,
       <<"gender", "socioeconomic">>, <<"disability", "age">>,
       <<"race", "religion">>, <<"nationality", "religion">>,
       <<"language", "cultural">> >>

\* `${category1}_${category2}`
IntersectionKey(pair) == pair[1] \o "_" \o pair[2]

\* intersectionWeights, in hundredths.
intersectionWeights ==
    [gender_race |-> 120, gender_age |-> 110, race_disability |-> 115,
     gender_socioeconomic |-> 110, disability_age |-> 115,
     race_religion |-> 110, nationality_religion |-> 110,
     language_cultural |-> 105]

contextOverlap == 100

Abs(x) == IF x < 0 THEN 0 - x ELSE x

areInstancesOverlapping(instance1, instance2) ==
    LET start1 == instance1.index
        end1 == instance1.index + Len(instance1.text)
        start2 == instance2.index
        end2 == instance2.index + Len(instance2.text)
    IN  \/ Abs(start1 - start2) < contextOverlap
        \/ Abs(end1 - end2) < contextOverlap

\* The nested loops of findOverlappingInstances: for each instance1 in order,
\* one copy per instance2 it overlaps.
RECURSIVE findOverlappingInstances(_, _)
findOverlappingInstances(instances1, instances2) ==
    IF instances1 = <<>> THEN <<>>
    ELSE LET instance1 == Head(instances1)
             hits == SelectSeq(instances2,
                         LAMBDA instance2 :
                             areInstancesOverlapping(instance1, instance2))
         IN  [k \in 1..Len(hits) |-> instance1]
                 \o findOverlappingInstances(Tail(instances1), instances2)

calculateIntersectionSeveritySwapped(score) ==
    IF RatLeq(Rat(1, 1), score) THEN "critical"
    ELSE IF RatLeq(Rat(4, 5), score) THEN "medium"
    ELSE IF RatLeq(Rat(1, 2), score) THEN "high"
    ELSE "low"

calculateIntersectionSeverity(score) ==
    IF RatLeq(Rat(1, 1), score) THEN "critical"
    ELSE IF RatLeq(Rat(4, 5), score) THEN "high"
    ELSE IF RatLeq(Rat(1, 2), score) THEN "medium"
    ELSE "low"

\* baseScore = (score1 + score2) / 2 with scores in tenths, weightedScore =
\* baseScore * weight with the weight in hundredths.
calculateIntersectionScore(result1, result2, weight) ==
    LET weightedScore == Rat((result1.score + result2.score) * weight, 2000)
    IN  [score |-> weightedScore,
         overlappingInstances |->
             findOverlappingInstances(result1.instances, result2.instances),
         severity |-> calculateIntersectionSeverity(weightedScore),
         categories |->
             [category1 |-> [score |-> result1.score,
                             severity |-> result1.severity],
              category2 |-> [score |-> result2.score,
                             severity |-> result2.severity]]]

\* The keys of a patterns object in insertion order, which is the order of
\* intersectionCategories.
KeysInOrder(patterns) ==
    LET keys == [i \in 1..Len(intersectionCategories) |->
                    IntersectionKey(intersectionCategories[i])]
    IN  SelectSeq(keys, LAMBDA k : k \in DOMAIN patterns)

generateIntersectionalSummary(patterns) ==
    [totalPatterns |-> Cardinality(DOMAIN patterns),
     criticalIntersections |->
         SelectSeq(KeysInOrder(patterns),
                   LAMBDA k : patterns[k].severity = "critical"),
     highPriorityIntersections |->
         SelectSeq(KeysInOrder(patterns),
                   LAMBDA k : patterns[k].severity = "high"),
     severityDistribution |->
         [sev \in {"critical", "high", "medium", "low"} |->
             Cardinality({k \in DOMAIN patterns : patterns[k].severity = sev})]]

\* getIntersectionRecommendations: the list of the pair, or the general one.
getIntersectionRecommendations(key) ==
    IF key \in {"gender_race", "race_disability", "gender_age"}
        THEN "specific" ELSE "general"

generateIntersectionalRecommendations(patterns) ==
    LET urgent == SelectSeq(KeysInOrder(patterns),
                      LAMBDA k : patterns[k].severity \in {"critical", "high"})
    IN  [i \in 1..Len(urgent) |->
            [intersection |-> urgent[i],
             severity |-> patterns[urgent[i]].severity,
             suggestions |-> getIntersectionRecommendations(urgent[i])]]

ZeroScore == [score |-> 0, instances |-> <<>>, severity |-> "low"]

analyzeIntersectionsEither(biasResults) ==
    LET get(c) == IF c \in DOMAIN biasResults THEN biasResults[c] ELSE ZeroScore
        score(pair) == calculateIntersectionScore(get(pair[1]), get(pair[2]),
                           intersectionWeights[IntersectionKey(pair)])
        kept == {i \in 1..Len(intersectionCategories) :
                    /\ \/ intersectionCategories[i][1] \in DOMAIN biasResults
                       \/ intersectionCategories[i][2] \in DOMAIN biasResults
                    /\ score(intersectionCategories[i]).score.num > 0}
        patterns == [k \in {IntersectionKey(intersectionCategories[i]) : i \in kept}
                        |-> score(CHOOSE pair \in {intersectionCategories[i] : i \in kept} :
                                      IntersectionKey(pair) = k)]
    IN  [patterns |-> patterns,
         summary |-> generateIntersectionalSummary(patterns),
         recommendations |-> generateIntersectionalRecommendations(patterns)]

analyzeIntersections(biasResults) ==
    LET score(pair) == calculateIntersectionScore(biasResults[pair[1]],
                           biasResults[pair[2]],
                           intersectionWeights[IntersectionKey(pair)])
        kept == {i \in 1..Len(intersectionCategories) :
                    /\ intersectionCategories[i][1] \in DOMAIN biasResults
                    /\ intersectionCategories[i][2] \in DOMAIN biasResults
                    /\ score(intersectionCategories[i]).score.num > 0}
        patterns == [k \in {IntersectionKey(intersectionCategories[i]) : i \in kept}
                        |-> score(CHOOSE pair \in {intersectionCategories[i] : i \in kept} :
                                      IntersectionKey(pair) = k)]
    IN  [patterns |-> patterns,
         summary |-> generateIntersectionalSummary(patterns),
         recommendations |-> generateIntersectionalRecommendations(patterns)]

\* The per-category results handed to analyzeIntersections: CategoryScore
\* objects for some of three categories, two of whose pairs are configured
\* (gender_race, gender_age) and one is not (race, age).
InputCategories == {"gender", "race", "age"}

NearInstance ==
    [text |-> Chars(<<"He", "is", "assumed">>), index |-> 0,
     context |-> Chars(<<"He", "is", "assumed">>)]
FarInstance ==
    [text |-> Chars(<<"male", "only">>), index |-> 200,
     context |-> Chars(<<"male", "only">>)]
InstanceLists == {<<>>, <<NearInstance, FarInstance>>}

CategoryScores ==
    {[score |-> sc, instances |-> l, severity |-> calculateSeverity(sc)] :
        sc \in 0..MaxScore, l \in InstanceLists}

IntersectionInputs ==
    UNION {[cats -> CategoryScores] : cats \in SUBSET InputCategories}

NoIntersections ==
    [patterns |-> <<>>, summary |-> generateIntersectionalSummary(<<>>),
     recommendations |-> <<>>]

InitIntersect ==
    /\ ManagerInit
    /\ ExtensionIdle
    /\ consentStatus = FALSE
    /\ req = <<>>
    /\ scan = <<>>
    /\ analysis = <<>>
    /\ mitigation = <<>>
    /\ \E biasResults \in IntersectionInputs :
          intersect = [pc |-> "idle", biasResults |-> biasResults,
                       result |-> NoIntersections, previous |-> NoIntersections]

\* analyzeIntersections(biasResults): the argument is only read.
AnalyzeIntersections ==
    /\ intersect.pc = "idle"
    /\ intersect' = [intersect EXCEPT
           !.pc = "analyzed",
           !.result = analyzeIntersections(intersect.biasResults)]
    /\ UNCHANGED <<managerVars, consentStatus, req, scan, analysis, mitigation,
                 extensionVars>>

\* A further call on results in which the score of category c is one tenth
\* higher and everything else as before; previous keeps the earlier result.
AnalyzeRaised(c) ==
    /\ intersect.pc \in {"analyzed", "raised"}
    /\ c \in DOMAIN intersect.biasResults
    /\ intersect.biasResults[c].score < MaxScore
    /\ LET raised == [intersect.biasResults EXCEPT
                         ![c].score = @ + 1,
                         ![c].severity = calculateSeverity(
                                             intersect.biasResults[c].score + 1)]
       IN  intersect' = [pc |-> "raised", biasResults |-> raised,
                         result |-> analyzeIntersections(raised),
                         previous |-> intersect.result]
    /\ UNCHANGED <<managerVars, consentStatus, req, scan, analysis, mitigation,
                 extensionVars>>

NextIntersect ==
    \/ AnalyzeIntersections
    \/ \E c \in InputCategories : AnalyzeRaised(c)

SpecIntersect == InitIntersect /\ [][NextIntersect]_vars

ConfiguredKeys(biasResults) ==
    {IntersectionKey(intersectionCategories[i]) :
        i \in {j \in 1..Len(intersectionCategories) :
                  /\ intersectionCategories[j][1] \in DOMAIN biasResults
                  /\ intersectionCategories[j][2] \in DOMAIN biasResults}}

\* C17: a pattern keyed c1_c2 exists in a result only for a configured pair
\* (c1, c2) whose two categories are keys of the input, and a call leaves its
\* input results as they were.
C17_PatternsOnlyForPresentPairs ==
    [][/\ DOMAIN intersect'.result.patterns
              \subseteq ConfiguredKeys(intersect'.biasResults)
       /\ intersect.pc = "idle" => intersect'.biasResults = intersect.biasResults]_vars

\* C17 witness: all three categories are present with positive scores; the
\* result holds gender_race and gender_age and nothing for (race, age).
C17_Witness ==
    /\ intersect.pc = "analyzed"
    /\ DOMAIN intersect.biasResults = InputCategories
    /\ \A c \in InputCategories : intersect.biasResults[c].score > 0
    /\ DOMAIN intersect.result.patterns = {"gender_race", "gender_age"}

SeverityRank(sev) ==
    CASE sev = "low" -> 0
      [] sev = "medium" -> 1
      [] sev = "high" -> 2
      [] sev = "critical" -> 3

\* C18: after one input category's score was raised, the other inputs held,
\* every pattern of the earlier result is still present with a weighted score
\* that is not lower and a severity tier that is the same or higher.
C18_SeverityMonotonic ==
    intersect.pc = "raised" =>
        \A k \in DOMAIN intersect.previous.patterns :
            /\ k \in DOMAIN intersect.result.patterns
            /\ RatLeq(intersect.previous.patterns[k].score,
                      intersect.result.patterns[k].score)
            /\ SeverityRank(intersect.previous.patterns[k].severity)
                   <= SeverityRank(intersect.result.patterns[k].severity)

\* C18 witness: raising one score lifted gender_race from 'medium' to 'high'
\* (weighted score from below 0.8 to at least 0.8).
C18_Witness ==
    /\ intersect.pc = "raised"
    /\ "gender_race" \in DOMAIN intersect.previous.patterns
    /\ intersect.previous.patterns["gender_race"].severity = "medium"
    /\ intersect.result.patterns["gender_race"].severity = "high"
    /\ RatLess(intersect.previous.patterns["gender_race"].score, Rat(4, 5))

-----------------------------------------------------------------------------
(* Bias mitigation (src/src/background/biasMitigation.js) *)

MITIGATION_STRATEGIES ==
    [REWEIGHTING |-> "reweighting",
     THRESHOLD_ADJUSTMENT |-> "threshold_adjustment",
     ENSEMBLE |-> "ensemble"]

\* The biasMetrics argument: disparate-impact ratios in tenths for some of the
\* attributes A and B, and a systematic-bias report.
RatioValues == {5, 8, 9}
MitigationAttributes == {"A", "B"}
Severities == {"low", "medium", "high"}

BiasMetrics ==
    UNION {[disparateImpact : [attrs -> RatioValues],
            systematicBias : [patterns : {<<>>, <<"skewed_predictions">>},
                              severity : Severities]] :
              attrs \in SUBSET MitigationAttributes}

\* needsMitigation: the callback of `some` reads MITIGATION_THRESHOLD, which
\* the module declares nowhere: its first invocation raises a ReferenceError.
\* `some` does not invoke it on an empty array.
needsMitigation(biasMetrics) ==
    IF DOMAIN biasMetrics.disparateImpact # {}
        THEN [threw |-> TRUE, value |-> FALSE]
        ELSE [threw |-> FALSE,
              value |-> biasMetrics.systematicBias.severity # "low"]

determineStrategies(biasMetrics) ==
    (IF \E a \in DOMAIN biasMetrics.disparateImpact :
            biasMetrics.disparateImpact[a] < 8
        THEN <<MITIGATION_STRATEGIES.REWEIGHTING>> ELSE <<>>)
    \o (IF Len(biasMetrics.systematicBias.patterns) > 0
        THEN <<MITIGATION_STRATEGIES.THRESHOLD_ADJUSTMENT>> ELSE <<>>)
    \o (IF biasMetrics.systematicBias.severity = "high"
        THEN <<MITIGATION_STRATEGIES.ENSEMBLE>> ELSE <<>>)

\* The key of mitigationResults.adjustments a strategy fills.
AdjustmentOf(strategy) ==
    CASE strategy = "reweighting" -> "weights"
      [] strategy = "threshold_adjustment" -> "thresholds"
      [] strategy = "ensemble" -> "ensemble"

\* evaluateMitigation runs the model on metadata.input and the statistical
\* analysis on its predictions: it returns its evaluation or throws.
EvaluationOutcomes == {"returns", "throws"}

NoPlan ==
    [kind |-> "none", appliedStrategies |-> <<>>, adjustments |-> {},
     performance |-> "empty"]

MaxMitigationCalls == 2    \* mitigateBias calls on the same arguments

mitigationResultsShared(previous) == [previous EXCEPT !.kind = "none"]

\* const mitigationResults = {...}: every call builds its own object, whatever
\* the previous call returned.
mitigationResults(previous) == NoPlan

\* A first call mitigateBias(model, biasMetrics, metadata): whether
\* evaluateMitigation returns or throws is a property of the model and the
\* metadata, which stay the same from call to call. given keeps the metrics
\* as they were handed over, first the outcome of the first call.
InitMitigation ==
    /\ ManagerInit
    /\ ExtensionIdle
    /\ consentStatus = FALSE
    /\ req = <<>>
    /\ scan = <<>>
    /\ analysis = <<>>
    /\ intersect = <<>>
    /\ \E biasMetrics \in BiasMetrics, evaluation \in EvaluationOutcomes :
          mitigation = [pc |-> "needsMitigation", biasMetrics |-> biasMetrics,
                        given |-> biasMetrics, evaluation |-> evaluation,
                        call |-> 1, first |-> NoPlan,
                        strategies |-> <<>>, result |-> mitigationResults(NoPlan)]

\* if (needsMitigation(biasMetrics)), with the catch that returns null.
NeedsMitigation ==
    /\ mitigation.pc = "needsMitigation"
    /\ LET needed == needsMitigation(mitigation.biasMetrics)
       IN  mitigation' =
               IF needed.threw
                   THEN [mitigation EXCEPT !.pc = "returned",
                                           !.result.kind = "null"]
               ELSE IF needed.value
                   THEN [mitigation EXCEPT
                            !.pc = "strategies",
                            !.strategies =
                                determineStrategies(mitigation.biasMetrics)]
               ELSE [mitigation EXCEPT !.pc = "return"]
    /\ UNCHANGED <<managerVars, consentStatus, req, scan, analysis, intersect,
                 extensionVars>>

\* One turn of the loop over the strategies.
ApplyStrategy ==
    /\ mitigation.pc = "strategies"
    /\ mitigation.strategies # <<>>
    /\ LET strategy == Head(mitigation.strategies)
       IN  mitigation' = [mitigation EXCEPT
               !.strategies = Tail(@),
               !.result.adjustments = @ \cup {AdjustmentOf(strategy)},
               !.result.appliedStrategies = Append(@, strategy)]
    /\ UNCHANGED <<managerVars, consentStatus, req, scan, analysis, intersect,
                 extensionVars>>

EvaluateMitigation(outcome) ==
    /\ mitigation.pc = "strategies"
    /\ mitigation.strategies = <<>>
    /\ outcome = mitigation.evaluation
    /\ mitigation' =
           IF outcome = "throws"
               THEN [mitigation EXCEPT !.pc = "returned", !.result.kind = "null"]
               ELSE [mitigation EXCEPT !.pc = "return",
                                       !.result.performance = "evaluated"]
    /\ UNCHANGED <<managerVars, consentStatus, req, scan, analysis, intersect,
                 extensionVars>>

MitigationReturn ==
    /\ mitigation.pc = "return"
    /\ mitigation' = [mitigation EXCEPT !.pc = "returned",
                                        !.result.kind = "plan"]
    /\ UNCHANGED <<managerVars, consentStatus, req, scan, analysis, intersect,
                 extensionVars>>

\* A further call with the same model, metrics and metadata objects.
MitigateAgain ==
    /\ mitigation.pc = "returned"
    /\ mitigation.call < MaxMitigationCalls
    /\ mitigation' = [mitigation EXCEPT
           !.pc = "needsMitigation",
           !.call = @ + 1,
           !.first = IF mitigation.call = 1 THEN mitigation.result ELSE @,
           !.strategies = <<>>,
           !.result = mitigationResults(mitigation.result)]
    /\ UNCHANGED <<managerVars, consentStatus, req, scan, analysis, intersect,
                 extensionVars>>

NextMitigation ==
    \/ NeedsMitigation
    \/ ApplyStrategy
    \/ \E o \in EvaluationOutcomes : EvaluateMitigation(o)
    \/ MitigationReturn
    \/ MitigateAgain

SpecMitigation == InitMitigation /\ [][NextMitigation]_vars

\* The decision rule: some disparate-impact ratio below 0.8, or a systematic
\* bias severity other than 'low'.
MitigationTriggered(biasMetrics) ==
    \/ \E a \in DOMAIN biasMetrics.disparateImpact :
           biasMetrics.disparateImpact[a] < 8
    \/ biasMetrics.systematicBias.severity # "low"

\* C19 (as claimed): mitigateBias returns a plan; the plan has no applied
\* strategy exactly when every ratio is >= 0.8 and the severity is 'low', and
\* at least one applied strategy otherwise.
C19_DecisionRule ==
    mitigation.pc = "returned" =>
        /\ mitigation.result.kind = "plan"
        /\ (mitigation.result.appliedStrategies = <<>>)
               <=> ~MitigationTriggered(mitigation.biasMetrics)

ScenarioMetrics ==
    [disparateImpact |-> [a \in {"A", "B"} |-> IF a = "A" THEN 5 ELSE 9],
     systematicBias |-> [patterns |-> <<>>, severity |-> "low"]]

\* C20 (as claimed): for the ratios {A: 0.5, B: 0.9} with severity 'low' and
\* no patterns the returned plan's applied strategies are ['reweighting'].
C20_ReweightingOnly ==
    (mitigation.pc = "returned" /\ mitigation.biasMetrics = ScenarioMetrics) =>
        /\ mitigation.result.kind = "plan"
        /\ mitigation.result.appliedStrategies = <<"reweighting">>

\* What a call returns: null, or the plan's strategies and adjustments.
Returned(result) ==
    IF result.kind = "null" THEN <<"null">>
    ELSE <<"plan", result.appliedStrategies, result.adjustments>>

ExpectedStrategies(biasMetrics) ==
    (IF \E a \in DOMAIN biasMetrics.disparateImpact :
            biasMetrics.disparateImpact[a] < 8
        THEN <<"reweighting">> ELSE <<>>)
    \o (IF biasMetrics.systematicBias.patterns # <<>>
        THEN <<"threshold_adjustment">> ELSE <<>>)
    \o (IF biasMetrics.systematicBias.severity = "high"
        THEN <<"ensemble">> ELSE <<>>)

\* C24 (as claimed): the plan returned for any bias metrics applies
\* 'reweighting' iff some ratio is < 0.8, 'threshold_adjustment' iff the
\* pattern list is non-empty and 'ensemble' iff the severity is 'high', in
\* this order, and its adjustments hold exactly the entries of the applied
\* strategies.
C24_StrategySelection ==
    mitigation.pc = "returned" =>
        /\ mitigation.result.kind = "plan"
        /\ mitigation.result.appliedStrategies
               = ExpectedStrategies(mitigation.biasMetrics)
        /\ mitigation.result.adjustments
               = {AdjustmentOf(mitigation.result.appliedStrategies[i]) :
                     i \in 1..Len(mitigation.result.appliedStrategies)}

-----------------------------------------------------------------------------
(* Threshold adjustment (biasMitigation.js, adjustThresholds) *)

MaxRatio == 10        \* disparate-impact scores of the input, in tenths

\* The module uses the identifier MITIGATION_THRESHOLD and declares it nowhere.
MITIGATION_THRESHOLD == "undeclared"

\* calculateOptimalThreshold(disparateImpactScore), the score in tenths and
\* the threshold in hundredths: reading an undeclared identifier raises a
\* ReferenceError.
calculateOptimalThreshold(disparateImpactScore) ==
    IF MITIGATION_THRESHOLD = "undeclared"
        THEN [threw |-> TRUE, value |-> 50]
        ELSE LET threshold == IF disparateImpactScore * 10 < MITIGATION_THRESHOLD
                                 THEN 5 * disparateImpactScore
                                 ELSE 50
             IN  [threw |-> FALSE, value |-> Max(10, Min(threshold, 90))]

ThresholdInputs ==
    UNION {[attrs -> 0..MaxRatio] : attrs \in SUBSET MitigationAttributes}

InitThresholds ==
    /\ ManagerInit
    /\ ExtensionIdle
    /\ consentStatus = FALSE
    /\ req = <<>>
    /\ scan = <<>>
    /\ analysis = <<>>
    /\ intersect = <<>>
    /\ \E disparateImpact \in ThresholdInputs :
          mitigation = [pc |-> "adjustThresholds",
                        disparateImpact |-> disparateImpact,
                        threw |-> FALSE, thresholds |-> <<>>]

\* adjustThresholds(model, biasMetrics): one calculateOptimalThreshold per
\* attribute of biasMetrics.disparateImpact; an exception leaves the function.
AdjustThresholds ==
    /\ mitigation.pc = "adjustThresholds"
    /\ LET attrs == DOMAIN mitigation.disparateImpact
           t(a) == calculateOptimalThreshold(mitigation.disparateImpact[a])
       IN  mitigation' =
               IF \E a \in attrs : t(a).threw
                   THEN [mitigation EXCEPT !.pc = "adjusted", !.threw = TRUE]
                   ELSE [mitigation EXCEPT
                            !.pc = "adjusted",
                            !.thresholds = [a \in attrs |-> t(a).value]]
    /\ UNCHANGED <<managerVars, consentStatus, req, scan, analysis, intersect,
                 extensionVars>>

\* The caller goes on to the next metrics.
NextMetrics ==
    /\ mitigation.pc = "adjusted"
    /\ \E disparateImpact \in ThresholdInputs :
          /\ DOMAIN disparateImpact = DOMAIN mitigation.disparateImpact
          /\ mitigation' = [pc |-> "adjustThresholds",
                            disparateImpact |-> disparateImpact,
                            threw |-> FALSE, thresholds |-> <<>>]
    /\ UNCHANGED <<managerVars, consentStatus, req, scan, analysis, intersect,
                 extensionVars>>

NextThresholds == AdjustThresholds \/ NextMetrics

SpecThresholds == InitThresholds /\ [][NextThresholds]_vars

\* C25 (as claimed): the adjusted threshold of every attribute with score d
\* is clamp(0.5 * d, 0.1, 0.9), for d below and above 0.8 alike.
C25_ThresholdClamp ==
    mitigation.pc = "adjusted" =>
        /\ ~mitigation.threw
        /\ DOMAIN mitigation.thresholds = DOMAIN mitigation.disparateImpact
        /\ \A a \in DOMAIN mitigation.thresholds :
               mitigation.thresholds[a]
                   = Max(10, Min(5 * mitigation.disparateImpact[a], 90))

-----------------------------------------------------------------------------
(* User profile management (src/unnamed/part_010) *)

MaxImport == 1        \* entries of the profiles array of an imported document

\* A profile is shown by its id and name; features, preferences and
\* lastModified are carried along and read by no operation.
DEFAULT_PROFILE == [id |-> "default", name |-> "Default Profile"]

\* The ids generateProfileId returns: 'profile_' + Date.now() + '_' + random.
GeneratedIds == {"profile_1"}

ProfileNames == {"Work"}
ProfileUpdates == {"Renamed"}

\* The ids a caller passes to updateProfile, deleteProfile and switchProfile.
ProfileIdArgs == {"default", "profile_1", "imported", "ghost"}

\* profiles.set(id, profile)
MapSet(map, id, profile) ==
    [k \in DOMAIN map \cup {id} |-> IF k = id THEN profile ELSE map[k]]

\* profiles.delete(id)
MapDelete(map, id) == [k \in DOMAIN map \ {id} |-> map[k]]

\* The documents handed to importProfiles: text that JSON.parse rejects, an
\* object without a profiles array, or {profiles: [...], activeProfileId}
\* whose array holds profile objects and null entries.
Null == [id |-> "null", name |-> "null"]
ImportEntries ==
    {[id |-> i, name |-> "Imported"] : i \in {"default", "profile_1", "imported"}}
        \cup {Null}
ImportArrays == UNION {[1..n -> ImportEntries] : n \in 0..MaxImport}
ImportDocuments ==
    {[kind |-> k, profiles |-> <<>>, activeProfileId |-> "absent"] :
        k \in {"invalid JSON", "no profiles array"}}
    \cup [kind : {"document"}, profiles : ImportArrays,
          activeProfileId : {"absent", "default", "imported", "ghost"}]

NoProfileCall ==
    [op |-> "none", id |-> "", threw |-> FALSE, malformed |-> FALSE,
     saveFailed |-> FALSE, initialized |-> FALSE]

\* The state after the module is loaded on a fresh installation:
\* profileState = {profiles: new Map(), activeProfileId: 'default'}.
InitProfiles ==
    /\ ManagerInit
    /\ consentStatus = FALSE
    /\ req = <<>>
    /\ scan = <<>>
    /\ analysis = <<>>
    /\ intersect = <<>>
    /\ mitigation = <<>>
    /\ memoryConfig = <<>>
    /\ memoryState = <<>>
    /\ profileState = [profiles |-> <<>>, activeProfileId |-> "default"]
    /\ storage = [hasProfiles |-> FALSE, profiles |-> <<>>,
                  activeProfileId |-> "absent"]
    /\ profileCall = NoProfileCall

ProfileFrame ==
    UNCHANGED <<managerVars, consentStatus, req, scan, metricsVars,
                memoryConfig, memoryState>>

\* What a completed call leaves in profileCall.
Called(op, id, threw) ==
    [profileCall EXCEPT !.op = op, !.id = id, !.threw = threw,
                        !.malformed = FALSE, !.saveFailed = FALSE]

\* saveProfiles: chrome.storage.local.set({profiles, activeProfileId}).
saveProfiles(state) ==
    [hasProfiles |-> TRUE, profiles |-> state.profiles,
     activeProfileId |-> state.activeProfileId]

\* initializeProfiles(): storage.get resolves (ok) or rejects.
initializeProfiles(ok) ==
    /\ LET loaded == IF storage.hasProfiles THEN storage.profiles
                     ELSE MapSet(profileState.profiles, "default", DEFAULT_PROFILE)
           withDefault == IF "default" \in DOMAIN loaded THEN loaded
                          ELSE MapSet(loaded, "default", DEFAULT_PROFILE)
           active == IF storage.activeProfileId = "absent" THEN "default"
                     ELSE storage.activeProfileId
       IN  profileState' =
               IF ok THEN [profiles |-> withDefault, activeProfileId |-> active]
               ELSE [profileState EXCEPT
                        !.profiles = MapSet(@, "default", DEFAULT_PROFILE)]
    /\ profileCall' = [Called("initializeProfiles", "", FALSE)
                          EXCEPT !.initialized = TRUE]
    /\ UNCHANGED storage
    /\ ProfileFrame

\* createProfile(name): the profile is put into the Map, then saved.
createProfile(name, ok) ==
    /\ \E id \in GeneratedIds :
          /\ id \notin DOMAIN profileState.profiles
          /\ profileState' = [profileState EXCEPT
                 !.profiles = MapSet(@, id, [id |-> id, name |-> name])]
          /\ profileCall' = [Called("createProfile", id, ~ok)
                                EXCEPT !.saveFailed = ~ok]
    /\ storage' = IF ok THEN saveProfiles(profileState') ELSE storage
    /\ ProfileFrame

updateProfile(id, name, ok) ==
    /\ IF id \notin DOMAIN profileState.profiles
           THEN /\ profileCall' = Called("updateProfile", id, TRUE)
                /\ UNCHANGED <<profileState, storage>>
           ELSE /\ profileState' = [profileState EXCEPT
                       !.profiles[id] = [@ EXCEPT !.name = name]]
                /\ profileCall' = [Called("updateProfile", id, ~ok)
                                      EXCEPT !.saveFailed = ~ok]
                /\ storage' = IF ok THEN saveProfiles(profileState') ELSE storage
    /\ ProfileFrame

deleteProfile(id, ok) ==
    /\ IF id = "default" \/ id \notin DOMAIN profileState.profiles
           THEN /\ profileCall' = Called("deleteProfile", id, TRUE)
                /\ UNCHANGED <<profileState, storage>>
           ELSE /\ profileState' =
                       [profiles |-> MapDelete(profileState.profiles, id),
                        activeProfileId |->
                            IF profileState.activeProfileId = id THEN "default"
                            ELSE profileState.activeProfileId]
                /\ profileCall' = [Called("deleteProfile", id, ~ok)
                                      EXCEPT !.saveFailed = ~ok]
                /\ storage' = IF ok THEN saveProfiles(profileState') ELSE storage
    /\ ProfileFrame

\* switchProfile(id): chrome.storage.local.set({activeProfileId: id}) writes
\* the one key.
switchProfile(id, ok) ==
    /\ IF id \notin DOMAIN profileState.profiles
           THEN /\ profileCall' = Called("switchProfile", id, TRUE)
                /\ UNCHANGED <<profileState, storage>>
           ELSE /\ profileState' = [profileState EXCEPT !.activeProfileId = id]
                /\ profileCall' = [Called("switchProfile", id, ~ok)
                                      EXCEPT !.saveFailed = ~ok]
                /\ storage' = IF ok THEN [storage EXCEPT !.activeProfileId = id]
                              ELSE storage
    /\ ProfileFrame

\* The forEach of importProfiles over data.profiles: an entry with the id
\* 'default' is skipped, reading the id of a null entry raises a TypeError
\* that ends the loop.
RECURSIVE importEach(_, _)
importEach(map, entries) ==
    IF entries = <<>> THEN [threw |-> FALSE, profiles |-> map]
    ELSE IF Head(entries) = Null THEN [threw |-> TRUE, profiles |-> map]
    ELSE IF Head(entries).id = "default" THEN importEach(map, Tail(entries))
    ELSE importEach(MapSet(map, Head(entries).id, Head(entries)), Tail(entries))

\* The statements of importProfiles up to saveProfiles.
importProfilesFromDocument(document) ==
    importEach(MapSet(<<>>, "default", DEFAULT_PROFILE), document.profiles)

importProfiles(document, ok) ==
    /\ IF document.kind # "document"
           THEN /\ profileCall' = [Called("importProfiles", "", TRUE)
                                      EXCEPT !.malformed = TRUE]
                /\ UNCHANGED <<profileState, storage>>
           ELSE LET imported == importProfilesFromDocument(document)
                    active ==
                        IF /\ ~imported.threw
                           /\ document.activeProfileId # "absent"
                           /\ document.activeProfileId \in DOMAIN imported.profiles
                            THEN document.activeProfileId
                            ELSE profileState.activeProfileId
                IN  /\ profileState' = [profiles |-> imported.profiles,
                                        activeProfileId |-> active]
                    /\ profileCall' =
                           [Called("importProfiles", "", imported.threw \/ ~ok)
                               EXCEPT !.saveFailed = ~imported.threw /\ ~ok]
                    /\ storage' = IF ~imported.threw /\ ok
                                      THEN saveProfiles(profileState')
                                      ELSE storage
    /\ ProfileFrame

NextProfiles ==
    \/ \E ok \in BOOLEAN : initializeProfiles(ok)
    \/ \E name \in ProfileNames, ok \in BOOLEAN : createProfile(name, ok)
    \/ \E id \in ProfileIdArgs, name \in ProfileUpdates, ok \in BOOLEAN :
           updateProfile(id, name, ok)
    \/ \E id \in ProfileIdArgs, ok \in BOOLEAN : deleteProfile(id, ok)
    \/ \E id \in ProfileIdArgs, ok \in BOOLEAN : switchProfile(id, ok)
    \/ \E document \in ImportDocuments, ok \in BOOLEAN :
           importProfiles(document, ok)

SpecProfiles == InitProfiles /\ [][NextProfiles]_vars

\* C22 (as claimed): an import whose document is malformed or whose saving
\* fails is rejected with an error, and the profiles and the activeProfileId
\* after it are those before it.
C22_FailedImportKeepsState ==
    [][(/\ profileCall'.op = "importProfiles"
        /\ profileCall'.malformed \/ profileCall'.saveFailed) =>
           /\ profileCall'.threw
           /\ profileState'.profiles = profileState.profiles
           /\ profileState'.activeProfileId = profileState.activeProfileId]_vars

\* C30 (as claimed): once the store is initialized, after every call the
\* 'default' profile exists and activeProfileId is the id of an existing
\* profile; deleteProfile('default') fails and changes nothing.
C30_DefaultAndActiveExist ==
    [][profileCall'.initialized =>
           /\ "default" \in DOMAIN profileState'.profiles
           /\ profileState'.activeProfileId \in DOMAIN profileState'.profiles
           /\ (profileCall'.op = "deleteProfile" /\ profileCall'.id = "default") =>
                  /\ profileCall'.threw
                  /\ profileState' = profileState
                  /\ storage' = storage]_vars

-----------------------------------------------------------------------------
(* Memory aid (src/unnamed/part_007) *)

MaxMemoryTime == 2      \* the clock of the page ticks at most this many ms
MaxBookmarkCalls == 3   \* createBookmark calls made while enabled

maxBookmarks == 50

BookmarkNames == {"Test Position", "Bookmark 1"}
BookmarkNotes == {"", "Test Notes"}

\* The config argument of initializeMemoryAid: enabled given or left out.
MemoryConfigs ==
    {[hasEnabled |-> FALSE, enabled |-> FALSE],
     [hasEnabled |-> TRUE, enabled |-> FALSE],
     [hasEnabled |-> TRUE, enabled |-> TRUE]}

\* `bookmark_${Date.now()}`
BookmarkKey(time) == <<"bookmark", time>>

\* bookmarks.set(key, bookmark) on a Map, kept as its entries in insertion
\* order: the value of an existing key is replaced in place.
BookmarksSet(entries, key, bookmark) ==
    IF \E i \in 1..Len(entries) : entries[i].key = key
        THEN [i \in 1..Len(entries) |->
                 IF entries[i].key = key
                     THEN [key |-> key, bookmark |-> bookmark]
                     ELSE entries[i]]
        ELSE Append(entries, [key |-> key, bookmark |-> bookmark])

\* getBookmarks(): one {key, ...bookmark} per entry of the Map.
getBookmarks ==
    [i \in 1..Len(memoryState.bookmarks) |->
        [key |-> memoryState.bookmarks[i].key,
         name |-> memoryState.bookmarks[i].bookmark.name,
         notes |-> memoryState.bookmarks[i].bookmark.notes,
         auto |-> memoryState.bookmarks[i].bookmark.auto]]

\* The module as loaded: enabled false, autoBookmark true, no bookmarks.
InitMemory ==
    /\ ManagerInit
    /\ consentStatus = FALSE
    /\ req = <<>>
    /\ scan = <<>>
    /\ analysis = <<>>
    /\ intersect = <<>>
    /\ mitigation = <<>>
    /\ profileState = <<>>
    /\ storage = <<>>
    /\ profileCall = <<>>
    /\ memoryConfig = [enabled |-> FALSE, autoBookmark |-> TRUE,
                       maxBookmarks |-> maxBookmarks]
    /\ memoryState = [bookmarks |-> <<>>, time |-> 0, listening |-> FALSE,
                      manual |-> <<>>, autoMade |-> FALSE]

MemoryFrame ==
    UNCHANGED <<managerVars, consentStatus, req, scan, metricsVars,
                profileState, storage, profileCall>>

\* initializeMemoryAid(config): updateConfig, then setupMemoryTracking, which
\* installs the auto-bookmark scroll listener when autoBookmark is set.
initializeMemoryAid(config) ==
    /\ memoryConfig' = [memoryConfig EXCEPT
           !.enabled = IF config.hasEnabled THEN config.enabled ELSE @]
    /\ memoryState' = [memoryState EXCEPT
           !.listening = @ \/ memoryConfig.autoBookmark]
    /\ MemoryFrame

\* createBookmark(name, notes)
createBookmark(name, notes) ==
    /\ Len(memoryState.manual) < MaxBookmarkCalls
    /\ IF ~memoryConfig.enabled THEN UNCHANGED memoryState
       ELSE memoryState' = [memoryState EXCEPT
                !.bookmarks = BookmarksSet(@, BookmarkKey(memoryState.time),
                                  [name |-> name, notes |-> notes,
                                   auto |-> FALSE]),
                !.manual = Append(@, [name |-> name, notes |-> notes])]
    /\ UNCHANGED memoryConfig
    /\ MemoryFrame

\* The timer of the auto-bookmark listener fires at a significant point of
\* the page: createAutoBookmark, which does not read memoryConfig.enabled.
createAutoBookmark ==
    /\ memoryState.listening
    /\ LET kept == IF Len(memoryState.bookmarks) >= memoryConfig.maxBookmarks
                       THEN Tail(memoryState.bookmarks)
                       ELSE memoryState.bookmarks
       IN  memoryState' = [memoryState EXCEPT
               !.bookmarks = BookmarksSet(kept, BookmarkKey(memoryState.time),
                                 [name |-> "", notes |-> "", auto |-> TRUE]),
               !.autoMade = TRUE]
    /\ UNCHANGED memoryConfig
    /\ MemoryFrame

\* cleanupMemoryAid(): the Maps are cleared; the anonymous listener of
\* setupAutoBookmark is not among the listeners removed.
cleanupMemoryAid ==
    /\ memoryState' = [memoryState EXCEPT !.bookmarks = <<>>,
                                          !.manual = <<>>,
                                          !.autoMade = FALSE]
    /\ UNCHANGED memoryConfig
    /\ MemoryFrame

\* Date.now() advances by a millisecond.
MemoryTick ==
    /\ memoryState.time < MaxMemoryTime
    /\ memoryState' = [memoryState EXCEPT !.time = @ + 1]
    /\ UNCHANGED memoryConfig
    /\ MemoryFrame

NextMemory ==
    \/ \E config \in MemoryConfigs : initializeMemoryAid(config)
    \/ \E name \in BookmarkNames, notes \in BookmarkNotes :
           createBookmark(name, notes)
    \/ createAutoBookmark
    \/ cleanupMemoryAid
    \/ MemoryTick

SpecMemory == InitMemory /\ [][NextMemory]_vars

\* C23 (as claimed): after n createBookmark calls made while enabled on an
\* empty store, with no automatic bookmark in between, getBookmarks() returns
\* n entries with distinct keys, the i-th with the name and notes of the i-th
\* call and auto = false; calls made while disabled add nothing.
C23_OneBookmarkPerCall ==
    ~memoryState.autoMade =>
        /\ Len(getBookmarks) = Len(memoryState.manual)
        /\ \A i \in 1..Len(getBookmarks) :
               /\ getBookmarks[i].name = memoryState.manual[i].name
               /\ getBookmarks[i].notes = memoryState.manual[i].notes
               /\ getBookmarks[i].auto = FALSE
        /\ \A i, j \in 1..Len(getBookmarks) :
               getBookmarks[i].key = getBookmarks[j].key => i = j

====
